---- MODULE Spec2Model ----
(***************************************************************************)
(* The request handlers of app.py over the relational store: users,        *)
(* modules, quizzes, challenges and submissions.  A handler is a function  *)
(* of the store and the request that gives the store it commits and the    *)
(* response it returns; handling a request is one step.  The submit-proof  *)
(* handler is also given in two steps, query then insert, for requests     *)
(* served concurrently (SpecConc).                                         *)
(***************************************************************************)
EXTENDS Integers, Sequences, FiniteSets, TLC

VARIABLES
    users,        \* User rows, id = index: [email, role, eco_points, green_coins]
    modules,      \* Module rows, id = index: [live, title]
    quizzes,      \* Quiz rows, id = index: [live, options, correct_answer, points, module_id]
    challenges,   \* Challenge rows, id = index: [live, points]
    submissions,  \* Submission rows, id = index: [user_id, challenge_id, status]
    inflight      \* submit-proof requests between their query and their insert

vars == <<users, modules, quizzes, challenges, submissions, inflight>>

-----------------------------------------------------------------------------
\* Bounds of the model.

\* eco_points are explored up to this balance.
MaxPoints == 2
\* Challenges created, deleted ones included (ids are not reused).
MaxChallenges == 2
\* Quizzes created, deleted ones included.
MaxQuizzes == 1
\* Content rows (modules, quizzes, challenges, submissions) created when every
\* route is in play.
MaxRows == 2
\* Handlers of the submit-proof route that run at the same time.
MaxWorkers == 2

-----------------------------------------------------------------------------
\* Inputs of the requests.

Roles == {"student", "teacher", "admin"}
Emails == {"a@x", "b@x"}
Methods == {"GET", "POST"}
Actions == {"approve", "reject", "other"}
ChallengePointInputs == {0, 1, 2}
QuizPointInputs == {1, 2}
TitleInputs == {"t1", "t2"}

\* Strings whose content the code looks at are sequences of characters.
Str_solar == <<"a">>
Str_SOLAR == <<"A">>
Str_padded == <<" ", "a", " ">>
Str_wind == <<"b">>
AnswerInputs == {Str_solar, Str_SOLAR, Str_padded, Str_wind}
\* Str_SOLAR, Str_wind and Str_padded are offered as options; Str_solar is not.
CorrectAnswerInputs == {Str_solar, Str_padded}
\* The options column holds text: JSON of a list of strings, or not JSON.
OptionsJson == [json |-> TRUE, items |-> <<Str_SOLAR, Str_wind, Str_padded>>]
OptionsNotJson == [json |-> FALSE, items |-> <<>>]
CoinsInputs == { <<"-", "1">>, <<" ", "1">>, <<"x">> }
ModuleIdInputs == { <<>>, <<"1">>, <<"x">> }

-----------------------------------------------------------------------------
\* str.strip(), str.lower(), int(str), json.loads

IsSpace(c) == c = " "

RECURSIVE lstrip(_)
lstrip(s) == IF s # <<>> /\ IsSpace(Head(s)) THEN lstrip(Tail(s)) ELSE s

RECURSIVE rstrip(_)
rstrip(s) ==
    IF s # <<>> /\ IsSpace(s[Len(s)]) THEN rstrip(SubSeq(s, 1, Len(s) - 1)) ELSE s

strip(s) == rstrip(lstrip(s))

LowerChar(c) == IF c = "A" THEN "a" ELSE IF c = "B" THEN "b" ELSE c

lower(s) == [i \in 1..Len(s) |-> LowerChar(s[i])]

DigitValue(c) ==
    CASE c = "0" -> 0 [] c = "1" -> 1 [] c = "2" -> 2 [] c = "3" -> 3
      [] OTHER -> -1

RECURSIVE DigitsValue(_, _)
DigitsValue(s, acc) ==
    IF s = <<>> THEN acc ELSE DigitsValue(Tail(s), 10 * acc + DigitValue(Head(s)))

AllDigits(s) == s # <<>> /\ \A i \in 1..Len(s) : DigitValue(s[i]) >= 0

\* int(text): [ok, value]; ok = FALSE stands for ValueError.
ParseInt(text) ==
    LET t == strip(text)
        signed == t # <<>> /\ Head(t) \in {"-", "+"}
        digits == IF signed THEN Tail(t) ELSE t
    IN  IF AllDigits(digits)
        THEN [ok |-> TRUE,
              value |-> IF signed /\ Head(t) = "-"
                        THEN 0 - DigitsValue(digits, 0)
                        ELSE DigitsValue(digits, 0)]
        ELSE [ok |-> FALSE, value |-> 0]

\* json.loads(quiz_obj.options), [] when it raises
QuizOptions(q) == IF q.options.json THEN q.options.items ELSE <<>>

Range(s) == {s[i] : i \in DOMAIN s}

-----------------------------------------------------------------------------
\* The store after db.create_all(): no rows.

NoRequest == [pc |-> "idle", user_id |-> 0, challenge_id |-> 0]

Init ==
    /\ users = <<>>
    /\ modules = <<>>
    /\ quizzes = <<>>
    /\ challenges = <<>>
    /\ submissions = <<>>
    /\ inflight = [w \in 1..MaxWorkers |-> NoRequest]

Store ==
    [users |-> users, modules |-> modules, quizzes |-> quizzes,
     challenges |-> challenges, submissions |-> submissions]

\* A handler that returns without a commit: the store is as it was.
Reply(response) == [store |-> Store, response |-> response]

\* db.session.commit() and the response after it
Commit(store, response) == [store |-> store, response |-> response]

\* The step of the server that handles a request whose handler gives `result`.
Handle(result) ==
    /\ users' = result.store.users
    /\ modules' = result.store.modules
    /\ quizzes' = result.store.quizzes
    /\ challenges' = result.store.challenges
    /\ submissions' = result.store.submissions
    /\ UNCHANGED inflight

Rows == Len(modules) + Len(quizzes) + Len(challenges) + Len(submissions)

\* Model.query.get_or_404(id) finds a row
Exists(table, id) == id \in DOMAIN table /\ table[id].live

\* ids a request may name: the rows ever created, and one that never was
IdsOf(table) == 1..(Len(table) + 1)

\* form.validate_on_submit(): a POST whose fields pass their validators
validate_on_submit(method, valid) == method = "POST" /\ valid

\* The role check written against the student role: an admin passes it.
IsTeacher_NotStudent(u) == users[u].role # "student"

\* current_user.role == "teacher"
IsTeacher(u) == users[u].role = "teacher"

-----------------------------------------------------------------------------
\* Routes that only read.

\* login_required on a request with no session
unauthorized == Reply("redirect:login")

index == Reply("render:index")

login(method, valid, email, password_ok) ==
    IF /\ validate_on_submit(method, valid)
       /\ \E i \in DOMAIN users : users[i].email = email
       /\ password_ok
    THEN Reply("redirect:dashboard")
    ELSE Reply("render:login")

logout(u) == Reply("redirect:index")

dashboard(u) ==
    IF IsTeacher(u)
    THEN Reply("render:dashboard_teacher")
    ELSE Reply("render:dashboard_student")

module_detail(u, module_id) ==
    IF Exists(modules, module_id) THEN Reply("render:module") ELSE Reply("404")

game(u) == Reply("render:game")

-----------------------------------------------------------------------------
\* Registration.

NewUser(email, role) ==
    [email |-> email, role |-> role, eco_points |-> 0, green_coins |-> 0]

register(method, valid, email, role) ==
    IF ~validate_on_submit(method, valid)
    THEN Reply("render:register")
    ELSE IF \E i \in DOMAIN users : users[i].email = email
    THEN Reply("redirect:register")
    ELSE Commit([Store EXCEPT !.users = Append(users, NewUser(email, role))],
                "redirect:login")

-----------------------------------------------------------------------------
\* Modules.

create_module(u, method, valid, title) ==
    IF ~IsTeacher(u)
    THEN Reply("redirect:dashboard")
    ELSE IF ~validate_on_submit(method, valid)
    THEN Reply("render:create_module")
    ELSE Commit([Store EXCEPT
                   !.modules = Append(modules, [live |-> TRUE, title |-> title])],
                "redirect:dashboard")

edit_module(u, module_id, method, valid, title) ==
    IF ~IsTeacher(u)
    THEN Reply("redirect:dashboard")
    ELSE IF ~Exists(modules, module_id)
    THEN Reply("404")
    ELSE IF ~validate_on_submit(method, valid)
    THEN Reply("render:create_module")
    ELSE Commit([Store EXCEPT !.modules[module_id].title = title],
                "redirect:dashboard")

DeletedModule == [live |-> FALSE, title |-> ""]

delete_module(u, module_id) ==
    IF ~IsTeacher(u)
    THEN Reply("redirect:dashboard")
    ELSE IF ~Exists(modules, module_id)
    THEN Reply("404")
    ELSE Commit([Store EXCEPT !.modules[module_id] = DeletedModule],
                "redirect:dashboard")

-----------------------------------------------------------------------------
\* Challenges.

\* ChallengeForm.points: NumberRange(min=1, max=200)
ChallengePointsMin == 1
ChallengePointsMax == 200

ChallengeFormValid(points) ==
    points >= ChallengePointsMin /\ points <= ChallengePointsMax

create_challenge(u, method, valid, points) ==
    IF ~IsTeacher(u)
    THEN Reply("redirect:dashboard")
    ELSE IF ~(validate_on_submit(method, valid) /\ ChallengeFormValid(points))
    THEN Reply("render:create_challenge")
    ELSE Commit([Store EXCEPT
                   !.challenges = Append(challenges, [live |-> TRUE, points |-> points])],
                "redirect:dashboard")

edit_challenge(u, challenge_id, method, valid, points) ==
    IF ~IsTeacher(u)
    THEN Reply("redirect:dashboard")
    ELSE IF ~Exists(challenges, challenge_id)
    THEN Reply("404")
    ELSE IF ~(validate_on_submit(method, valid) /\ ChallengeFormValid(points))
    THEN Reply("render:create_challenge")
    ELSE Commit([Store EXCEPT !.challenges[challenge_id].points = points],
                "redirect:dashboard")

DeletedChallenge == [live |-> FALSE, points |-> 0]

delete_challenge(u, challenge_id) ==
    IF ~IsTeacher(u)
    THEN Reply("redirect:dashboard")
    ELSE IF ~Exists(challenges, challenge_id)
    THEN Reply("404")
    ELSE Commit([Store EXCEPT !.challenges[challenge_id] = DeletedChallenge],
                "redirect:dashboard")

-----------------------------------------------------------------------------
\* Submitting proof for a challenge.

\* The existence query narrowed to submissions still pending.
HasSubmission_PendingOnly(u, challenge_id) ==
    \E i \in DOMAIN submissions :
        /\ submissions[i].user_id = u
        /\ submissions[i].challenge_id = challenge_id
        /\ submissions[i].status = "pending"

\* Submission.query.filter_by(user_id=..., challenge_id=...).first()
HasSubmission(u, challenge_id) ==
    \E i \in DOMAIN submissions :
        /\ submissions[i].user_id = u
        /\ submissions[i].challenge_id = challenge_id

NewSubmission(u, challenge_id) ==
    [user_id |-> u, challenge_id |-> challenge_id, status |-> "pending"]

\* What the handler decides from the request and its query of the store.
ChallengeOutcome(u, challenge_id, method, proof_file) ==
    IF ~Exists(challenges, challenge_id) THEN "404"
    ELSE IF IsTeacher(u) THEN "redirect:dashboard"
    ELSE IF HasSubmission(u, challenge_id) THEN "render:challenge"
    ELSE IF validate_on_submit(method, proof_file) THEN "insert"
    ELSE "render:challenge"

\* The Submission table carries no uniqueness constraint on (user_id,
\* challenge_id): the store accepts every insert.
InsertAccepted(u, challenge_id) == TRUE

\* db.session.add(submission); db.session.commit()
InsertSubmission(u, challenge_id) ==
    IF InsertAccepted(u, challenge_id)
    THEN Commit([Store EXCEPT
                   !.submissions = Append(submissions, NewSubmission(u, challenge_id))],
                "render:challenge")
    ELSE Reply("500")

\* The handler run without another request in between.
challenge(u, challenge_id, method, proof_file) ==
    LET outcome == ChallengeOutcome(u, challenge_id, method, proof_file)
    IN  IF outcome = "insert"
        THEN InsertSubmission(u, challenge_id)
        ELSE Reply(outcome)

\* The handler up to its query, in worker w; the insert follows in a later step.
challenge_query(w, u, challenge_id, method, proof_file) ==
    /\ inflight[w].pc = "idle"
    /\ IF ChallengeOutcome(u, challenge_id, method, proof_file) = "insert"
       THEN inflight' = [inflight EXCEPT ![w] =
                [pc |-> "insert", user_id |-> u, challenge_id |-> challenge_id]]
       ELSE UNCHANGED inflight
    /\ UNCHANGED <<users, modules, quizzes, challenges, submissions>>

challenge_insert(w) ==
    /\ inflight[w].pc = "insert"
    /\ submissions' =
         InsertSubmission(inflight[w].user_id, inflight[w].challenge_id).store.submissions
    /\ inflight' = [inflight EXCEPT ![w] = NoRequest]
    /\ UNCHANGED <<users, modules, quizzes, challenges>>

-----------------------------------------------------------------------------
\* Reviewing a submission.

\* The review with the points credited to current_user, the reviewer.
review_submission_AwardsReviewer(u, submission_id, action) ==
    IF ~IsTeacher(u)
    THEN Reply("redirect:dashboard")
    ELSE IF ~(submission_id \in DOMAIN submissions)
    THEN Reply("404")
    ELSE LET submission == submissions[submission_id]
         IN  IF action = "approve"
             THEN IF ~Exists(challenges, submission.challenge_id)
                  THEN Reply("500")
                  ELSE Commit([Store EXCEPT
                          !.submissions[submission_id].status = "approved",
                          !.users[u].eco_points =
                              @ + challenges[submission.challenge_id].points],
                        "redirect:dashboard")
             ELSE IF action = "reject"
             THEN Commit([Store EXCEPT
                            !.submissions[submission_id].status = "rejected"],
                         "redirect:dashboard")
             ELSE Commit(Store, "redirect:dashboard")

\* The review with a plain else in place of the test for "reject".
review_submission_ElseRejects(u, submission_id, action) ==
    IF ~IsTeacher(u)
    THEN Reply("redirect:dashboard")
    ELSE IF ~(submission_id \in DOMAIN submissions)
    THEN Reply("404")
    ELSE LET submission == submissions[submission_id]
         IN  IF action = "approve"
             THEN IF ~Exists(challenges, submission.challenge_id)
                  THEN Reply("500")
                  ELSE Commit([Store EXCEPT
                          !.submissions[submission_id].status = "approved",
                          !.users[submission.user_id].eco_points =
                              @ + challenges[submission.challenge_id].points],
                        "redirect:dashboard")
             ELSE Commit([Store EXCEPT
                            !.submissions[submission_id].status = "rejected"],
                         "redirect:dashboard")

review_submission(u, submission_id, action) ==
    IF ~IsTeacher(u)
    THEN Reply("redirect:dashboard")
    ELSE IF ~(submission_id \in DOMAIN submissions)
    THEN Reply("404")
    ELSE LET submission == submissions[submission_id]
         IN  IF action = "approve"
             THEN IF ~Exists(challenges, submission.challenge_id)
                  THEN Reply("500")
                  ELSE Commit([Store EXCEPT
                          !.submissions[submission_id].status = "approved",
                          !.users[submission.user_id].eco_points =
                              @ + challenges[submission.challenge_id].points],
                        "redirect:dashboard")
             ELSE IF action = "reject"
             THEN Commit([Store EXCEPT
                            !.submissions[submission_id].status = "rejected"],
                         "redirect:dashboard")
             ELSE Commit(Store, "redirect:dashboard")

-----------------------------------------------------------------------------
\* Quizzes.

\* QuizForm.points: NumberRange(min=1, max=100)
QuizPointsMin == 1
QuizPointsMax == 100
\* "points or 10"
DefaultQuizPoints == 10

QuizFormValid(points) == points >= QuizPointsMin /\ points <= QuizPointsMax

\* points or 10: 0 stands for a falsy value, None or 0
OrDefault(points) == IF points = 0 THEN DefaultQuizPoints ELSE points

\* The comparison without lower().
AnswerMatches_CaseSensitive(answer, correct_answer) ==
    strip(answer) = strip(correct_answer)

\* answer.strip().lower() == quiz_obj.correct_answer.strip().lower()
AnswerMatches(answer, correct_answer) ==
    lower(strip(answer)) = lower(strip(correct_answer))

\* TakeQuizForm: the answer is one of the choices, the decoded options
TakeQuizFormValid(q, answer) ==
    \E i \in DOMAIN QuizOptions(q) : QuizOptions(q)[i] = answer

quiz(u, quiz_id, method, valid, answer) ==
    IF ~Exists(quizzes, quiz_id)
    THEN Reply("404")
    ELSE IF IsTeacher(u)
    THEN Reply("redirect:dashboard")
    ELSE LET quiz_obj == quizzes[quiz_id]
         IN  IF ~(validate_on_submit(method, valid) /\ TakeQuizFormValid(quiz_obj, answer))
             THEN Reply("render:quiz")
             ELSE IF AnswerMatches(answer, quiz_obj.correct_answer)
             THEN Commit([Store EXCEPT
                            !.users[u].eco_points = @ + OrDefault(quiz_obj.points)],
                         "redirect:dashboard")
             ELSE Reply("redirect:dashboard")

NewQuiz(options, correct_answer, points, module_id) ==
    [live |-> TRUE, options |-> options, correct_answer |-> correct_answer,
     points |-> OrDefault(points), module_id |-> module_id]

create_quiz(u, method, valid, options, correct_answer, points, module_id) ==
    IF ~IsTeacher(u)
    THEN Reply("redirect:dashboard")
    ELSE IF ~(validate_on_submit(method, valid) /\ QuizFormValid(points))
    THEN Reply("render:create_quiz")
    ELSE IF module_id = <<>>
    THEN Reply("render:create_quiz")
    ELSE IF ~ParseInt(module_id).ok
    THEN Reply("500")
    ELSE Commit([Store EXCEPT !.quizzes = Append(quizzes,
                   NewQuiz(options, correct_answer, points, ParseInt(module_id).value))],
                "redirect:dashboard")

edit_quiz(u, quiz_id, method, valid, options, correct_answer, points, module_id) ==
    IF ~IsTeacher(u)
    THEN Reply("redirect:dashboard")
    ELSE IF ~Exists(quizzes, quiz_id)
    THEN Reply("404")
    ELSE IF ~(validate_on_submit(method, valid) /\ QuizFormValid(points))
    THEN Reply("render:create_quiz")
    ELSE IF module_id = <<>>
    THEN Reply("render:create_quiz")
    ELSE IF ~ParseInt(module_id).ok
    THEN Reply("500")
    ELSE Commit([Store EXCEPT !.quizzes[quiz_id] =
                   NewQuiz(options, correct_answer, points, ParseInt(module_id).value)],
                "redirect:dashboard")

DeletedQuiz ==
    [live |-> FALSE, options |-> [json |-> FALSE, items |-> <<>>],
     correct_answer |-> <<>>, points |-> 0, module_id |-> 0]

delete_quiz(u, quiz_id) ==
    IF ~IsTeacher(u)
    THEN Reply("redirect:dashboard")
    ELSE IF ~Exists(quizzes, quiz_id)
    THEN Reply("404")
    ELSE Commit([Store EXCEPT !.quizzes[quiz_id] = DeletedQuiz],
                "redirect:dashboard")

-----------------------------------------------------------------------------
\* Mini game.

\* GameForm: the coins field carries no validator on its value; the form is
\* valid when the rest of it (the CSRF token) is.
GameFormValid(valid, coins_text) == valid

mini_game_add_points(u, valid, coins_text) ==
    IF users[u].role # "student"
    THEN Reply("redirect:dashboard")
    ELSE IF ~validate_on_submit("POST", GameFormValid(valid, coins_text))
    THEN Reply("redirect:game")
    ELSE LET parsed == ParseInt(coins_text)
             coins == IF parsed.ok THEN parsed.value ELSE users[u].green_coins
         IN  Commit([Store EXCEPT !.users[u].green_coins = coins], "redirect:game")

-----------------------------------------------------------------------------
\* The requests a client sends: a GET, a POST the validators refuse, or a POST
\* with fields from the input sets.

RegisterForms ==
    {[method |-> m, valid |-> FALSE, email |-> "a@x", role |-> "student"] : m \in Methods}
    \cup {[method |-> "POST", valid |-> TRUE, email |-> e, role |-> r] :
            e \in Emails, r \in Roles}

LoginForms ==
    {[method |-> "GET", valid |-> FALSE, email |-> "a@x", password_ok |-> FALSE]}
    \cup {[method |-> "POST", valid |-> TRUE, email |-> e, password_ok |-> ok] :
            e \in Emails, ok \in BOOLEAN}

ModuleForms ==
    {[method |-> m, valid |-> FALSE, title |-> "t1"] : m \in Methods}
    \cup {[method |-> "POST", valid |-> TRUE, title |-> t] : t \in TitleInputs}

ChallengeForms ==
    {[method |-> m, valid |-> FALSE, points |-> 1] : m \in Methods}
    \cup {[method |-> "POST", valid |-> TRUE, points |-> p] : p \in ChallengePointInputs}

ProofForms ==
    {[method |-> "GET", proof_file |-> FALSE]}
    \cup {[method |-> "POST", proof_file |-> f] : f \in BOOLEAN}

QuizForms ==
    {[method |-> m, valid |-> FALSE, options |-> OptionsNotJson,
      correct_answer |-> Str_solar, points |-> 1, module_id |-> <<"1">>] : m \in Methods}
    \cup {[method |-> "POST", valid |-> TRUE, options |-> OptionsNotJson,
           correct_answer |-> Str_solar, points |-> 0, module_id |-> <<"1">>]}
    \cup {[method |-> "POST", valid |-> TRUE, options |-> OptionsNotJson,
           correct_answer |-> Str_solar, points |-> 1, module_id |-> mid] :
            mid \in ModuleIdInputs}
    \cup {[method |-> "POST", valid |-> TRUE, options |-> OptionsJson,
           correct_answer |-> c, points |-> p, module_id |-> <<"1">>] :
            c \in CorrectAnswerInputs, p \in QuizPointInputs}

TakeQuizForms ==
    {[method |-> m, valid |-> FALSE, answer |-> Str_solar] : m \in Methods}
    \cup {[method |-> "POST", valid |-> TRUE, answer |-> a] : a \in AnswerInputs}

GameForms ==
    {[valid |-> FALSE, coins |-> <<"x">>]}
    \cup {[valid |-> TRUE, coins |-> c] : c \in CoinsInputs}

-----------------------------------------------------------------------------
\* What the bounds keep the store within.

PointsWithin == \A i \in DOMAIN users : users[i].eco_points <= MaxPoints

SubmissionWithin == PointsWithin /\ Len(challenges) <= MaxChallenges

QuizWithin == PointsWithin /\ Len(quizzes) <= MaxQuizzes

RowsWithin == PointsWithin /\ Rows <= MaxRows

-----------------------------------------------------------------------------
\* The steps of the server, one per route.

Register ==
    \E f \in RegisterForms : Handle(register(f.method, f.valid, f.email, f.role))

Unauthorized == Handle(unauthorized)

Index == Handle(index)

Login == \E f \in LoginForms : Handle(login(f.method, f.valid, f.email, f.password_ok))

Logout == \E u \in DOMAIN users : Handle(logout(u))

Dashboard == \E u \in DOMAIN users : Handle(dashboard(u))

ModuleDetail == \E u \in DOMAIN users, id \in IdsOf(modules) : Handle(module_detail(u, id))

Game == \E u \in DOMAIN users : Handle(game(u))

CreateModule ==
    \E u \in DOMAIN users, f \in ModuleForms :
        Handle(create_module(u, f.method, f.valid, f.title))

EditModule ==
    \E u \in DOMAIN users, id \in IdsOf(modules), f \in ModuleForms :
        Handle(edit_module(u, id, f.method, f.valid, f.title))

DeleteModule ==
    \E u \in DOMAIN users, id \in IdsOf(modules) : Handle(delete_module(u, id))

CreateChallenge ==
    \E u \in DOMAIN users, f \in ChallengeForms :
        Handle(create_challenge(u, f.method, f.valid, f.points))

EditChallenge ==
    \E u \in DOMAIN users, id \in IdsOf(challenges), f \in ChallengeForms :
        Handle(edit_challenge(u, id, f.method, f.valid, f.points))

DeleteChallenge ==
    \E u \in DOMAIN users, id \in IdsOf(challenges) : Handle(delete_challenge(u, id))

SubmitProof ==
    \E u \in DOMAIN users, id \in IdsOf(challenges), f \in ProofForms :
        Handle(challenge(u, id, f.method, f.proof_file))

SubmitProofQuery ==
    \E w \in 1..MaxWorkers, u \in DOMAIN users, id \in IdsOf(challenges), f \in ProofForms :
        challenge_query(w, u, id, f.method, f.proof_file)

SubmitProofInsert == \E w \in 1..MaxWorkers : challenge_insert(w)

ReviewSubmission ==
    \E u \in DOMAIN users, id \in IdsOf(submissions), a \in Actions :
        Handle(review_submission(u, id, a))

TakeQuiz ==
    \E u \in DOMAIN users, id \in IdsOf(quizzes), f \in TakeQuizForms :
        Handle(quiz(u, id, f.method, f.valid, f.answer))

CreateQuiz ==
    \E u \in DOMAIN users, f \in QuizForms :
        Handle(create_quiz(u, f.method, f.valid, f.options, f.correct_answer,
                           f.points, f.module_id))

EditQuiz ==
    \E u \in DOMAIN users, id \in IdsOf(quizzes), f \in QuizForms :
        Handle(edit_quiz(u, id, f.method, f.valid, f.options, f.correct_answer,
                         f.points, f.module_id))

DeleteQuiz ==
    \E u \in DOMAIN users, id \in IdsOf(quizzes) : Handle(delete_quiz(u, id))

MiniGameAddPoints ==
    \E u \in DOMAIN users, f \in GameForms :
        Handle(mini_game_add_points(u, f.valid, f.coins))

-----------------------------------------------------------------------------
\* The submission workflow, requests handled one at a time.

NextSubmission ==
    \/ Register /\ SubmissionWithin'
    \/ CreateChallenge /\ SubmissionWithin'
    \/ EditChallenge /\ SubmissionWithin'
    \/ DeleteChallenge /\ SubmissionWithin'
    \/ SubmitProof /\ SubmissionWithin'
    \/ ReviewSubmission /\ SubmissionWithin'

SpecSubmission == Init /\ [][NextSubmission]_vars

\* The submission workflow, submit-proof requests served by MaxWorkers workers.
NextConc ==
    \/ Register /\ SubmissionWithin'
    \/ CreateChallenge /\ SubmissionWithin'
    \/ SubmitProofQuery
    \/ SubmitProofInsert

SpecConc == Init /\ [][NextConc]_vars

\* Quizzes: authoring them and answering them.
NextQuiz ==
    \/ Register /\ QuizWithin'
    \/ CreateQuiz /\ QuizWithin'
    \/ EditQuiz /\ QuizWithin'
    \/ DeleteQuiz /\ QuizWithin'
    \/ TakeQuiz /\ QuizWithin'

SpecQuiz == Init /\ [][NextQuiz]_vars

\* Every route, requests handled one at a time.
Next ==
    \/ Unauthorized
    \/ Index
    \/ Login
    \/ Logout
    \/ Dashboard
    \/ ModuleDetail
    \/ Game
    \/ Register /\ RowsWithin'
    \/ CreateModule /\ RowsWithin'
    \/ EditModule /\ RowsWithin'
    \/ DeleteModule /\ RowsWithin'
    \/ CreateChallenge /\ RowsWithin'
    \/ EditChallenge /\ RowsWithin'
    \/ DeleteChallenge /\ RowsWithin'
    \/ SubmitProof /\ RowsWithin'
    \/ ReviewSubmission /\ RowsWithin'
    \/ CreateQuiz /\ RowsWithin'
    \/ EditQuiz /\ RowsWithin'
    \/ DeleteQuiz /\ RowsWithin'
    \/ TakeQuiz /\ RowsWithin'
    \/ MiniGameAddPoints /\ RowsWithin'

Spec == Init /\ [][Next]_vars

-----------------------------------------------------------------------------
\* Properties of the handlers.

Teachers == {u \in DOMAIN users : users[u].role = "teacher"}
NonTeachers == {u \in DOMAIN users : users[u].role # "teacher"}

\* The submissions of user u for challenge c.
SubmissionsOf(u, c) ==
    {i \in DOMAIN submissions :
        submissions[i].user_id = u /\ submissions[i].challenge_id = c}

\* C1: a teacher's approve of a pending submission (whose challenge exists) gives
\* a store in which the submission is approved and its owner has the challenge's
\* current points more; no other user's points and no other submission's status
\* differ.
C1_ApproveAwardsChallengePoints ==
    \A t \in Teachers, sid \in DOMAIN submissions :
        LET sub == submissions[sid]
            after == review_submission(t, sid, "approve").store
        IN  (sub.status = "pending" /\ Exists(challenges, sub.challenge_id)) =>
              /\ DOMAIN after.submissions = DOMAIN submissions
              /\ DOMAIN after.users = DOMAIN users
              /\ after.submissions[sid].status = "approved"
              /\ after.users[sub.user_id].eco_points =
                    users[sub.user_id].eco_points + challenges[sub.challenge_id].points
              /\ \A i \in DOMAIN users \ {sub.user_id} :
                    after.users[i].eco_points = users[i].eco_points
              /\ \A j \in DOMAIN submissions \ {sid} :
                    after.submissions[j].status = submissions[j].status

\* An approved submission whose owner holds the challenge's points, beside a
\* submission still pending.
C1_Witness ==
    \E sid \in DOMAIN submissions, other \in DOMAIN submissions :
        /\ other # sid
        /\ submissions[other].status = "pending"
        /\ submissions[sid].status = "approved"
        /\ Exists(challenges, submissions[sid].challenge_id)
        /\ challenges[submissions[sid].challenge_id].points = 2
        /\ users[submissions[sid].user_id].eco_points = 2

\* C2: points are awarded once per submission: a step in which no submission
\* leaves the pending state for the approved one raises no user's eco_points.
C2_PointsAwardedOnce ==
    [][ (\A s \in DOMAIN submissions :
            ~(submissions[s].status = "pending" /\ submissions'[s].status = "approved"))
        => \A i \in DOMAIN users : users'[i].eco_points <= users[i].eco_points ]_vars

\* C3: approved and rejected are terminal: no step changes the status of a
\* submission that is approved or rejected.
C3_ReviewedStatusIsTerminal ==
    [][ \A s \in DOMAIN submissions :
            submissions[s].status \in {"approved", "rejected"}
            => submissions'[s].status = submissions[s].status ]_vars

\* C4: once the concurrent submit-proof requests have all finished, no
\* (user, challenge) has more than one submission.
C4_OneSubmissionAfterConcurrentCreates ==
    (\A w \in DOMAIN inflight : inflight[w].pc = "idle")
    => \A u \in DOMAIN users, c \in DOMAIN challenges : Cardinality(SubmissionsOf(u, c)) <= 1

\* C5: with requests handled one at a time, a submit-proof request by a user who
\* has a submission for the challenge, in any status, leaves the store as it is,
\* and no (user, challenge) has more than one submission.
C5_AtMostOneSubmissionPerUserChallenge ==
    /\ \A u \in DOMAIN users, c \in DOMAIN challenges : Cardinality(SubmissionsOf(u, c)) <= 1
    /\ \A u \in DOMAIN users, c \in DOMAIN challenges, f \in ProofForms :
          SubmissionsOf(u, c) # {} =>
              challenge(u, c, f.method, f.proof_file).store = Store

\* A user with a reviewed submission for a challenge that still exists, whose
\* next submit-proof request the handler has to refuse.
C5_Witness ==
    \E i \in DOMAIN submissions :
        /\ submissions[i].status = "rejected"
        /\ Exists(challenges, submissions[i].challenge_id)
        /\ Len(submissions) = 2

\* The teacher-only requests user u can send: what each handler gives.
TeacherOnlyResults(u) ==
    {create_module(u, f.method, f.valid, f.title) : f \in ModuleForms}
    \cup {edit_module(u, id, f.method, f.valid, f.title) :
            id \in IdsOf(modules), f \in ModuleForms}
    \cup {delete_module(u, id) : id \in IdsOf(modules)}
    \cup {create_challenge(u, f.method, f.valid, f.points) : f \in ChallengeForms}
    \cup {edit_challenge(u, id, f.method, f.valid, f.points) :
            id \in IdsOf(challenges), f \in ChallengeForms}
    \cup {delete_challenge(u, id) : id \in IdsOf(challenges)}
    \cup {create_quiz(u, f.method, f.valid, f.options, f.correct_answer, f.points,
                      f.module_id) : f \in QuizForms}
    \cup {edit_quiz(u, id, f.method, f.valid, f.options, f.correct_answer, f.points,
                    f.module_id) : id \in IdsOf(quizzes), f \in QuizForms}
    \cup {delete_quiz(u, id) : id \in IdsOf(quizzes)}
    \cup {review_submission(u, id, a) : id \in IdsOf(submissions), a \in Actions}

\* C6: a teacher-only request (module, challenge, quiz create, edit, delete;
\* submission review) by a user who is not a teacher leaves the store as it is
\* and is answered by a redirect to the dashboard.
C6_NonTeacherChangesNothing ==
    \A u \in NonTeachers :
        \A result \in TeacherOnlyResults(u) :
            result.store = Store /\ result.response = "redirect:dashboard"

\* An admin beside their pending submission for a challenge that exists: rows
\* their review, edit and delete requests name.
C6_Witness ==
    \E i \in DOMAIN submissions :
        /\ submissions[i].status = "pending"
        /\ Exists(challenges, submissions[i].challenge_id)
        /\ users[submissions[i].user_id].role = "admin"

\* The GET requests user u can send to the routes behind login: what each
\* handler gives.  A route declared without methods takes GET.
GetResults(u) ==
    {logout(u), dashboard(u), game(u)}
    \cup {module_detail(u, id) : id \in IdsOf(modules)}
    \cup {create_module(u, "GET", FALSE, "t1")}
    \cup {edit_module(u, id, "GET", FALSE, "t1") : id \in IdsOf(modules)}
    \cup {delete_module(u, id) : id \in IdsOf(modules)}
    \cup {challenge(u, id, "GET", FALSE) : id \in IdsOf(challenges)}
    \cup {create_challenge(u, "GET", FALSE, 1)}
    \cup {edit_challenge(u, id, "GET", FALSE, 1) : id \in IdsOf(challenges)}
    \cup {review_submission(u, id, a) : id \in IdsOf(submissions), a \in Actions}
    \cup {quiz(u, id, "GET", FALSE, Str_solar) : id \in IdsOf(quizzes)}
    \cup {create_quiz(u, f.method, f.valid, f.options, f.correct_answer, f.points,
                      f.module_id) : f \in {g \in QuizForms : g.method = "GET"}}
    \cup {edit_quiz(u, id, f.method, f.valid, f.options, f.correct_answer, f.points,
                    f.module_id) :
            id \in IdsOf(quizzes), f \in {g \in QuizForms : g.method = "GET"}}
    \cup {delete_quiz(u, id) : id \in IdsOf(quizzes)}

\* C7: no GET request changes the store.
C7_GetChangesNothing ==
    /\ index.store = Store
    /\ unauthorized.store = Store
    /\ register("GET", FALSE, "a@x", "student").store = Store
    /\ login("GET", FALSE, "a@x", FALSE).store = Store
    /\ \A u \in DOMAIN users : \A result \in GetResults(u) : result.store = Store

\* C8: a teacher's review of an existing submission with a token other than
\* approve and reject leaves the store as it is and is answered by the redirect
\* to the dashboard.
C8_OtherActionChangesNothing ==
    \A t \in Teachers, sid \in DOMAIN submissions, a \in Actions \ {"approve", "reject"} :
        LET result == review_submission(t, sid, a)
        IN  result.store = Store /\ result.response = "redirect:dashboard"

\* A teacher beside a pending and an approved submission.
C8_Witness ==
    /\ Teachers # {}
    /\ \E i \in DOMAIN submissions : submissions[i].status = "pending"
    /\ \E i \in DOMAIN submissions : submissions[i].status = "approved"

\* Equality after trimming whitespace and ignoring case, said without the
\* string methods: the two strings hold the same letters between their first
\* and last characters that are not spaces.
Core(s) == {i \in DOMAIN s : (\E j \in 1..i : s[j] # " ") /\ (\E j \in i..Len(s) : s[j] # " ")}
Letter(c) == IF c \in {"a", "A"} THEN "a" ELSE IF c \in {"b", "B"} THEN "b" ELSE c
First(s) == IF Core(s) = {} THEN 1 ELSE CHOOSE i \in Core(s) : \A j \in Core(s) : i <= j
SameAnswer(x, y) ==
    /\ Cardinality(Core(x)) = Cardinality(Core(y))
    /\ \A k \in 0..(Cardinality(Core(x)) - 1) :
          Letter(x[First(x) + k]) = Letter(y[First(y) + k])

\* C9: a quiz answer (one of the quiz's options) sent by a user who is not a
\* teacher changes the store exactly when it equals the correct answer after
\* trimming and ignoring case; then the sender's eco_points are quiz.points
\* higher (10 when unset) and nothing else differs; on a mismatch the store is
\* as it was, whatever was answered before.
C9_QuizAwardsOnMatchOnly ==
    \A u \in NonTeachers, q \in DOMAIN quizzes, a \in AnswerInputs :
        (quizzes[q].live /\ a \in Range(QuizOptions(quizzes[q]))) =>
            LET after == quiz(u, q, "POST", TRUE, a).store
                award == IF quizzes[q].points = 0 THEN 10 ELSE quizzes[q].points
            IN  IF SameAnswer(a, quizzes[q].correct_answer)
                THEN /\ after # Store
                     /\ after = [Store EXCEPT !.users[u].eco_points = @ + award]
                ELSE after = Store

\* A user who has earned points from a quiz whose correct answer is stored with
\* padding, which only an answer in another case or padding matches.
C9_Witness ==
    \E u \in NonTeachers, q \in DOMAIN quizzes :
        /\ users[u].eco_points = 2
        /\ quizzes[q].live
        /\ quizzes[q].correct_answer = Str_padded
        /\ Str_SOLAR \in Range(QuizOptions(quizzes[q]))

\* C10: every user's eco_points and green_coins are at least 0.
C10_BalancesNotNegative ==
    \A i \in DOMAIN users : users[i].eco_points >= 0 /\ users[i].green_coins >= 0

\* C11: only students create submissions: a submit-proof request by a user of
\* another role (teacher or admin) leaves the submissions as they are, and every
\* submission on record belongs to a student.
C11_OnlyStudentsCreateSubmissions ==
    /\ \A i \in DOMAIN submissions : users[submissions[i].user_id].role = "student"
    /\ \A u \in DOMAIN users, c \in IdsOf(challenges), f \in ProofForms :
          users[u].role # "student" =>
              challenge(u, c, f.method, f.proof_file).store.submissions = submissions

====
